---- MODULE Spec2Model ----
(***************************************************************************)
(* Model of the signal ingestion core: DiscordReader.fetch_after           *)
(* (src/discord_reader.py), parse_signal and signal_hash                   *)
(* (src/signal_parser.py).                                                 *)
(*                                                                         *)
(* Text is a sequence of one-character strings.  The regular expressions   *)
(* of signal_parser.py are transcribed item by item and run by a small     *)
(* backtracking matcher with Python's priorities (greedy quantifiers,      *)
(* alternatives left to right, leftmost match for search).                 *)
(***************************************************************************)
EXTENDS Integers, Sequences, FiniteSets, TLC

VARIABLES
    \* ---- DiscordReader.fetch_after ----
    pc,         \* position in fetch_after: "idle", "loop", "done"
    url,        \* the arguments the url of the call is built from
    attempt,    \* the for-loop variable of range(3)
    log,        \* events of the call in order: remote reads and sleeps
    ret,        \* what the call gave its caller
    \* ---- parse_signal ----
    ppc,        \* "ready" before the call, "done" after
    frags,      \* the fragments the input text was composed from
    text,       \* the input text
    quote,      \* the configured quote
    result,     \* what parse_signal gave its caller
    \* ---- signal_hash ----
    sigA, sigB, \* two Signal dicts
    hashA, hashB \* their fingerprints, -1 before signal_hash was applied

vars == <<pc, url, attempt, log, ret, ppc, frags, text, quote, result,
          sigA, sigB, hashA, hashB>>

fetchVars == <<pc, url, attempt, log, ret>>

parseVars == <<ppc, frags, text, quote, result>>

hashVars == <<sigA, sigB, hashA, hashB>>

(***************************************************************************)
(* Characters and strings                                                  *)
(***************************************************************************)
Range(s) == {s[i] : i \in 1..Len(s)}

IndexOf(s, c) == CHOOSE i \in 1..Len(s) : s[i] = c

Max(S) == CHOOSE x \in S : \A y \in S : y <= x

Min(S) == CHOOSE x \in S : \A y \in S : x <= y

LowerChars == <<"a","b","c","d","e","f","g","h","i","j","k","l","m","n","o","p","q","r","s","t","u","v","w","x","y","z">>

UpperChars == <<"A","B","C","D","E","F","G","H","I","J","K","L","M","N","O","P","Q","R","S","T","U","V","W","X","Y","Z">>

DigitChars == <<"0","1","2","3","4","5","6","7","8","9">>

\* one-character stand-ins for the non-ASCII characters of the source
HOURGLASS == "U+23F3"

EN_DASH == "U+2013"

EM_DASH == "U+2014"

\* str.upper() on one character
upper_char(c) ==
    IF c \in Range(LowerChars) THEN UpperChars[IndexOf(LowerChars, c)] ELSE c

lower_char(c) ==
    IF c \in Range(UpperChars) THEN LowerChars[IndexOf(UpperChars, c)] ELSE c

\* str.upper()
upper(s) == [i \in 1..Len(s) |-> upper_char(s[i])]

(***************************************************************************)
(* Regular expressions: a pattern is a sequence of items.                  *)
(*   Cls(set, q)  one character class with quantifier q: "1" "?" "*" "+"   *)
(*   Alt(alts)    a group of alternatives, each a pattern, tried in order  *)
(***************************************************************************)
Cls(set, q) == [kind |-> "cls", cls |-> set, q |-> q]

Alt(alts) == [kind |-> "alt", alts |-> alts]

\* a literal character under re.I
LitI(c) == Cls({lower_char(c), upper_char(c)}, "1")

\* a literal word under re.I
WordI(w) == [i \in 1..Len(w) |-> LitI(w[i])]

\* \s, \d, [:\s], [A-Z0-9] under re.I, [-–—]
WS == {" ", "\n", "\t"}

DIGIT == Range(DigitChars)

COLON_WS == {":"} \cup WS

ALNUM == Range(UpperChars) \cup Range(LowerChars) \cup DIGIT

DASHES == {"-", EN_DASH, EM_DASH}

Fail == <<-1>>

RECURSIVE RunLen(_, _, _)
RunLen(cls, t, i) ==
    IF i <= Len(t) /\ t[i] \in cls THEN 1 + RunLen(cls, t, i + 1) ELSE 0

\* re's match of pattern `items` at position i of t: Fail, or for each item
\* the position after it (the first successful path in priority order:
\* a quantifier tries its longest run first, a group its alternatives in
\* order).
RECURSIVE Match(_, _, _), TryCount(_, _, _, _, _), TryAlt(_, _, _, _, _)
Match(items, t, i) ==
    IF Len(items) = 0 THEN <<>>
    ELSE LET it == Head(items)
             rest == Tail(items)
         IN  IF it.kind = "cls"
             THEN LET run == RunLen(it.cls, t, i)
                      lo == IF it.q \in {"1", "+"} THEN 1 ELSE 0
                      hi == IF it.q \in {"1", "?"} /\ run > 1 THEN 1 ELSE run
                  IN  TryCount(rest, t, i, hi, lo)
             ELSE TryAlt(it.alts, 1, rest, t, i)

\* the item takes n characters, then n - 1, ... down to lo
TryCount(rest, t, i, n, lo) ==
    IF n < lo THEN Fail
    ELSE LET r == Match(rest, t, i + n)
         IN  IF r # Fail THEN <<i + n>> \o r
             ELSE TryCount(rest, t, i, n - 1, lo)

\* the group takes its a-th alternative, then the next ones
TryAlt(alts, a, rest, t, i) ==
    IF a > Len(alts) THEN Fail
    ELSE LET k == Len(alts[a])
             r == Match(alts[a] \o rest, t, i)
         IN  IF r # Fail
             THEN <<IF k = 0 THEN i ELSE r[k]>> \o SubSeq(r, k + 1, Len(r))
             ELSE TryAlt(alts, a + 1, rest, t, i)

NoMatch == [start |-> 0, ends |-> <<>>]

\* pattern.search(t, pos): the leftmost match at or after position `from`
RECURSIVE Search(_, _, _)
Search(p, t, from) ==
    IF from > Len(t) THEN NoMatch
    ELSE LET r == Match(p, t, from)
         IN  IF r # Fail THEN [start |-> from, ends |-> r]
             ELSE Search(p, t, from + 1)

MatchEnd(m) == m.ends[Len(m.ends)]

\* pattern.finditer(t): the successive non-overlapping matches
RECURSIVE FindIter(_, _, _)
FindIter(p, t, from) ==
    LET m == Search(p, t, from)
    IN  IF m = NoMatch THEN <<>>
        ELSE <<m>> \o FindIter(p, t, MatchEnd(m))

\* the text matched by items k1..k2 of the pattern
Span(t, m, k1, k2) ==
    SubSeq(t, IF k1 = 1 THEN m.start ELSE m.ends[k1 - 1], m.ends[k2] - 1)

(***************************************************************************)
(* The patterns of signal_parser.py                                        *)
(***************************************************************************)
W_NEW_SIGNAL == <<"N","E","W"," ","S","I","G","N","A","L">>

W_NEW_TRADE_SIGNAL == <<"N","E","W"," ","T","R","A","D","E"," ","S","I","G","N","A","L">>

W_TRADE_CANCELLED == <<"T","R","A","D","E"," ","C","A","N","C","E","L","L","E","D">>

W_TRADE_CLOSED == <<"T","R","A","D","E"," ","C","L","O","S","E","D">>

W_LONG == <<"L","O","N","G">>

W_SHORT == <<"S","H","O","R","T">>

W_SIGNAL == <<"S","I","G","N","A","L">>

W_TRADE == <<"T","r","a","d","e">>

W_CLOSED == <<"c","l","o","s","e","d">>

W_ENTRY == <<"E","n","t","r","y">>

W_STOP == <<"S","t","o","p">>

W_LOSS == <<"L","o","s","s">>

W_SELL == <<"s","e","l","l">>

W_BUY == <<"b","u","y">>

\* NUM = ([0-9]+(?:\.[0-9]+)?) : two items, the digits and the optional group
NUM ==
    <<Cls(DIGIT, "+"), Alt(<< <<Cls({"."}, "1"), Cls(DIGIT, "+")>>, <<>> >>)>>

RE_NEW_SIGNAL ==
    <<Alt(<< WordI(W_NEW_SIGNAL),
             WordI(W_NEW_TRADE_SIGNAL),
             <<Alt(<<WordI(W_LONG), WordI(W_SHORT)>>), Cls(WS, "+")>>
                 \o WordI(W_SIGNAL),
             WordI(W_TRADE) \o <<Cls(WS, "+")>> \o WordI(W_SIGNAL) >>)>>

\* RE_CANCELLED without its second alternative
RE_CANCELLED_without_closed ==
    <<Alt(<<WordI(W_TRADE_CANCELLED)>>)>>

RE_CANCELLED ==
    <<Alt(<<WordI(W_TRADE_CANCELLED), WordI(W_TRADE_CLOSED)>>)>>

\* the pattern of line 61: hourglass, \s*, "closed"
RE_CLOSED_STATUS ==
    <<Cls({HOURGLASS}, "1"), Cls(WS, "*")>> \o WordI(W_CLOSED)

\* item 1 is group 1 (side), item 12 group 2 (base), item 16 group 3 (quote)
RE_SIDE_SYMBOL ==
    <<Alt(<<WordI(W_LONG), WordI(W_SHORT)>>), Cls(WS, "+")>>
    \o WordI(W_SIGNAL)
    \o <<Cls(WS, "*"), Cls(DASHES, "1"), Cls(WS, "*"), Cls(ALNUM, "+"),
         Cls(WS, "*"), Cls({"/"}, "1"), Cls(WS, "*"), Cls(ALNUM, "+")>>

RE_ENTRY ==
    WordI(W_ENTRY) \o <<Cls(COLON_WS, "*"), Cls({"$"}, "?")>> \o NUM

\* item 3 is group 1 (the rank), the last two items group 2 (NUM)
RE_TP ==
    WordI(<<"T", "P">>)
    \o <<Cls(DIGIT, "+"), Cls(COLON_WS, "*"), Cls({"$"}, "?")>> \o NUM

RE_DCA ==
    WordI(<<"D", "C", "A">>)
    \o <<Cls(WS, "*"), Cls({"#"}, "?"), Cls(WS, "*"), Cls({"1"}, "?"),
         Cls(COLON_WS, "*"), Cls({"$"}, "?")>> \o NUM

RE_SL ==
    WordI(W_STOP) \o <<Cls(WS, "*")>> \o WordI(W_LOSS)
    \o <<Cls(COLON_WS, "*"), Cls({"$"}, "?")>> \o NUM

\* the NUM group of a match of a pattern that ends in NUM
NumGroup(p, t, m) == Span(t, m, Len(p) - 1, Len(p))

(***************************************************************************)
(* Numbers                                                                 *)
(***************************************************************************)
\* str.replace(",", "")
RECURSIVE replace_comma(_)
replace_comma(s) ==
    IF s = <<>> THEN <<>>
    ELSE (IF Head(s) = "," THEN <<>> ELSE <<Head(s)>>) \o replace_comma(Tail(s))

\* int() of a digit string
RECURSIVE int(_)
int(s) ==
    IF s = <<>> THEN 0
    ELSE 10 * int(SubSeq(s, 1, Len(s) - 1)) + (IndexOf(DigitChars, s[Len(s)]) - 1)

RECURSIVE StripTrailingZeros(_)
StripTrailingZeros(s) ==
    IF s # <<>> /\ s[Len(s)] = "0"
    THEN StripTrailingZeros(SubSeq(s, 1, Len(s) - 1))
    ELSE s

\* float() of a string NUM accepts, as an exact decimal: the integer part and
\* the fractional digits without trailing zeros
float(s) ==
    LET dots == {i \in 1..Len(s) : s[i] = "."}
        d == IF dots = {} THEN Len(s) + 1 ELSE Min(dots)
    IN  [int |-> int(SubSeq(s, 1, d - 1)),
         frac |-> StripTrailingZeros(SubSeq(s, d + 1, Len(s)))]

Zero == [int |-> 0, frac |-> <<>>]

\* p > 0
Positive(p) == p.int > 0 \/ p.frac # <<>>

(***************************************************************************)
(* parse_signal                                                            *)
(***************************************************************************)
None == [kind |-> "None"]

Raised(e) == [kind |-> "raise", exc |-> e]

RawLen == 500

\* while len(tps) < idx: tps.append(0.0)
RECURSIVE Grow(_, _)
Grow(tps, idx) == IF Len(tps) < idx THEN Grow(Append(tps, Zero), idx) ELSE tps

\* tps[idx - 1] = price ; Python's index -1 is the last element, and an
\* index outside the list raises IndexError
SetItem(tps, idx, price) ==
    IF idx >= 1 /\ idx <= Len(tps)
    THEN [err |-> FALSE, tps |-> [tps EXCEPT ![idx] = price]]
    ELSE IF idx = 0 /\ Len(tps) >= 1
    THEN [err |-> FALSE, tps |-> [tps EXCEPT ![Len(tps)] = price]]
    ELSE [err |-> TRUE, tps |-> tps]

\* the body of the loop over RE_TP.finditer(text), for the matches ms
RECURSIVE tp_loop(_, _, _)
tp_loop(ms, t, tps) ==
    IF ms = <<>> THEN [err |-> FALSE, tps |-> tps]
    ELSE LET m == Head(ms)
             idx == int(Span(t, m, 3, 3))
             price == float(replace_comma(NumGroup(RE_TP, t, m)))
             set == SetItem(Grow(tps, idx), idx, price)
         IN  IF set.err THEN set ELSE tp_loop(Tail(ms), t, set.tps)

\* [p for p in tps if p > 0]
drop_zeros(tps) == SelectSeq(tps, Positive)

\* symbol = f"{base}{quote}"
make_symbol(base, q) == base \o q

\* lines 101-107
parse_dca(t) ==
    LET m_dca == Search(RE_DCA, t, 1)
    IN  IF m_dca = NoMatch THEN <<>>
        ELSE LET dca_price == float(replace_comma(NumGroup(RE_DCA, t, m_dca)))
             IN  IF Positive(dca_price) THEN <<dca_price>> ELSE <<>>

\* lines 109-113
parse_sl(t) ==
    LET m_sl == Search(RE_SL, t, 1)
    IN  IF m_sl = NoMatch THEN None
        ELSE float(replace_comma(NumGroup(RE_SL, t, m_sl)))

parse_signal(t, q) ==
    IF Search(RE_NEW_SIGNAL, t, 1) = NoMatch THEN None
    ELSE IF Search(RE_CANCELLED, t, 1) # NoMatch THEN None
    ELSE IF Search(RE_CLOSED_STATUS, t, 1) # NoMatch THEN None
    ELSE LET m_side == Search(RE_SIDE_SYMBOL, t, 1) IN
    IF m_side = NoMatch THEN None
    ELSE LET side_word == upper(Span(t, m_side, 1, 1))
             base == upper(Span(t, m_side, 12, 12))
             quote_found == upper(Span(t, m_side, 16, 16))
         IN
    IF quote_found # upper(q) THEN None
    ELSE LET side == IF side_word = W_SHORT THEN W_SELL ELSE W_BUY
             symbol == make_symbol(base, q)
             m_entry == Search(RE_ENTRY, t, 1)
         IN
    IF m_entry = NoMatch THEN None
    ELSE LET trigger == float(replace_comma(NumGroup(RE_ENTRY, t, m_entry)))
             loop == tp_loop(FindIter(RE_TP, t, 1), t, <<>>)
         IN
    IF loop.err THEN Raised("IndexError")
    ELSE LET tps == drop_zeros(loop.tps) IN
    IF tps = <<>> THEN None
    ELSE [kind |-> "Signal",
          base |-> base,
          symbol |-> symbol,
          side |-> side,
          trigger |-> trigger,
          tp_prices |-> tps,
          dca_prices |-> parse_dca(t),
          sl_price |-> parse_sl(t),
          raw |-> SubSeq(t, 1, IF Len(t) < RawLen THEN Len(t) ELSE RawLen)]

(***************************************************************************)
(* Input texts: a text is composed of fragments joined by " | ", the way   *)
(* extract_text joins the parts of a message.  A fragment records what it  *)
(* is (kind), so that a property can speak of the tokens a text was        *)
(* written with, independently of what the patterns find in it.            *)
(*   w: a word (side word, phrase, rank or level digits), n: the base,     *)
(*   x: a number literal or the quote                                      *)
(***************************************************************************)
Frag(kind, w, n, x) == [kind |-> kind, w |-> w, n |-> n, x |-> x]

JOINER == <<" ", "|", " ">>

Render(f) ==
    CASE f.kind = "side"   -> f.w \o <<" ">> \o W_SIGNAL \o <<" ", "-", " ">>
                              \o f.n \o <<"/">> \o f.x
      [] f.kind = "entry"  -> W_ENTRY \o <<":", " ">> \o f.x
      [] f.kind = "tp"     -> <<"T", "P">> \o f.w \o <<":", " ">> \o f.x
      [] f.kind = "dca"    -> <<"D", "C", "A">> \o f.w
                              \o (IF f.x = <<>>
                                  THEN <<" ", "P", "e", "n", "d", "i", "n", "g">>
                                  ELSE <<":", " ">> \o f.x)
      [] f.kind = "sl"     -> W_STOP \o <<" ">> \o W_LOSS \o <<":", " ">> \o f.x
      [] OTHER             -> f.w     \* "new", "cancel", "status", "chat"

RECURSIVE Join(_)
Join(fs) ==
    IF fs = <<>> THEN <<>>
    ELSE IF Len(fs) = 1 THEN Render(fs[1])
    ELSE Render(Head(fs)) \o JOINER \o Join(Tail(fs))

W_USDT == <<"U", "S", "D", "T">>

HeaderSet ==
    { <<>>,
      <<Frag("new", W_NEW_SIGNAL, <<>>, <<>>)>>,
      <<Frag("side", W_LONG, <<"B", "T", "C">>, W_USDT)>>,
      <<Frag("side", W_LONG, <<"B", "T", "C">>, W_USDT),
        Frag("entry", <<>>, <<>>, <<"1", ".", "5", "0">>)>>,
      <<Frag("side", <<"s", "h", "o", "r", "t">>, <<"o", "l">>, <<"u", "s", "d", "t">>),
        Frag("entry", <<>>, <<>>, <<"1", ".", "5", "0">>)>>,
      <<Frag("side", W_SHORT, <<"O", "L">>, <<"E", "U", "R">>),
        Frag("entry", <<>>, <<>>, <<"2">>)>> }

QuoteSet == {W_USDT, <<"u", "s", "d", "t">>}

TPSet ==
    { Frag("tp", <<r>>, <<>>, x) : r \in {"0", "1", "2"}, x \in {<<"0">>, <<"5">>} }
    \cup { Frag("tp", <<"1">>, <<>>, <<"7", ".", "5">>) }

DCASet ==
    { Frag("dca", <<"1">>, <<>>, <<"0", ".", "0", "1", "8">>),
      Frag("dca", <<>>, <<>>, <<"3">>),
      Frag("dca", <<"2">>, <<>>, <<"0", ".", "0", "1", "8">>),
      Frag("dca", <<"1">>, <<>>, <<>>) }

CancelSet ==
    { Frag("cancel", W_TRADE_CANCELLED, <<>>, <<>>),
      Frag("cancel", <<"t", "r", "a", "d", "e", " ", "c", "l", "o", "s", "e", "d">>, <<>>, <<>>) }

OtherSet ==
    { Frag("status", <<HOURGLASS, " ", "C", "l", "o", "s", "e", "d">>, <<>>, <<>>),
      Frag("sl", <<>>, <<>>, <<"9">>) }

\* the TP tokens of a text: at most MaxTP of them
MaxTP == 2

RECURSIVE SeqsUpTo(_, _)
SeqsUpTo(S, n) ==
    IF n = 0 THEN {<<>>}
    ELSE LET shorter == SeqsUpTo(S, n - 1)
         IN  shorter \cup {Append(s, e) : s \in {q \in shorter : Len(q) = n - 1}, e \in S}

\* the fragments after the header: the TP tokens, and at most one other
\* fragment before or after them
BodySet ==
    LET tpss == SeqsUpTo(TPSet, MaxTP)
    IN  tpss
        \cup {tps \o <<e>> : tps \in tpss, e \in DCASet \cup CancelSet \cup OtherSet}
        \cup {<<e>> \o tps : tps \in tpss, e \in CancelSet}

InitParse ==
    /\ ppc = "ready"
    /\ \E h \in HeaderSet, b \in BodySet :
          /\ frags = h \o b
          /\ text = Join(h \o b)
    /\ quote \in QuoteSet
    /\ result = None
    \* the reader and the fingerprinter are at rest
    /\ pc = "off"
    /\ url = None
    /\ attempt = 0
    /\ log = <<>>
    /\ ret = None
    /\ sigA = None
    /\ sigB = None
    /\ hashA = -1
    /\ hashB = -1

\* the caller applies parse_signal to the text
ParseSignal ==
    /\ ppc = "ready"
    /\ result' = parse_signal(text, quote)
    /\ ppc' = "done"
    /\ UNCHANGED <<frags, text, quote>>
    /\ UNCHANGED <<fetchVars, hashVars>>

(***************************************************************************)
(* DiscordReader.fetch_after                                               *)
(***************************************************************************)
MaxAttempts == 3

DefaultRetryAfter == 5

TransportBackoff == 3

\* what a remote read can give: a response of a status, or an exception
\* raised by requests.get itself
Absent == -1

LimitSet == {1, 50}

AfterIdSet == {"", "1234"}

BatchSet == {<<>>, <<"m1">>, <<"m1", "m2">>}

RetryAfterSet == {Absent, 0, 2}

ErrorStatusSet == {403, 500}

TransportExcSet == {"ConnectionError", "Timeout"}

\* the exceptions of requests that derive from requests.RequestException
RequestException == {"ConnectionError", "Timeout", "HTTPError"}

ReadEvent(at, what, num, msgs) ==
    [ev |-> "read", at |-> at, what |-> what, num |-> num, msgs |-> msgs]

SleepEvent(at, secs) ==
    [ev |-> "sleep", at |-> at, what |-> "", num |-> secs, msgs |-> <<>>]

Batch(msgs) == [kind |-> "batch", msgs |-> msgs]

InitFetch ==
    /\ pc = "idle"
    /\ url = None
    /\ attempt = 0
    /\ log = <<>>
    /\ ret = None
    \* the parser and the fingerprinter are at rest
    /\ ppc = "off"
    /\ frags = <<>>
    /\ text = <<>>
    /\ quote = <<>>
    /\ result = None
    /\ sigA = None
    /\ sigB = None
    /\ hashA = -1
    /\ hashB = -1

\* lines 20-26: the caller calls fetch_after(after_id, limit); the url is
\* built and the loop starts at attempt 0
CallFetchAfter ==
    /\ pc = "idle"
    /\ \E a \in AfterIdSet, l \in LimitSet :
          url' = [kind |-> "url", limit |-> l, after |-> a]
    /\ attempt' = 0
    /\ pc' = "loop"
    /\ UNCHANGED <<log, ret>>
    /\ UNCHANGED <<parseVars, hashVars>>

\* lines 39-42: the handler of requests.RequestException, for an exception
\* exc raised in the try block after the events evs of this iteration
ExceptHandler(exc, evs) ==
    IF exc \in RequestException
    THEN /\ log' = log \o evs
                   \o (IF attempt < 2
                       THEN <<SleepEvent(attempt, TransportBackoff)>>
                       ELSE <<>>)
         /\ attempt' = attempt + 1
         /\ UNCHANGED <<pc, ret>>
    ELSE /\ log' = log \o evs
         /\ ret' = Raised(exc)
         /\ pc' = "done"
         /\ UNCHANGED attempt

\* lines 28, 36-37: the read answers with a successful response; its batch
\* is returned
ReadOk ==
    /\ pc = "loop" /\ attempt < MaxAttempts
    /\ \E b \in BatchSet :
          /\ log' = Append(log, ReadEvent(attempt, "ok", 200, b))
          /\ ret' = Batch(b)
    /\ pc' = "done"
    /\ UNCHANGED <<url, attempt>>
    /\ UNCHANGED <<parseVars, hashVars>>

\* ReadRateLimited retrying without consuming an attempt
ReadRateLimited_keeps_attempt ==
    /\ pc = "loop" /\ attempt < MaxAttempts
    /\ \E ra \in RetryAfterSet :
          LET retry_after == (IF ra = Absent THEN DefaultRetryAfter ELSE ra) + 1
          IN  log' = log \o <<ReadEvent(attempt, "rate_limited", ra, <<>>),
                              SleepEvent(attempt, retry_after)>>
    /\ UNCHANGED <<pc, url, ret, attempt>>
    /\ UNCHANGED <<parseVars, hashVars>>

\* lines 28, 31-34: the read answers 429; sleep retry_after + 1, continue
ReadRateLimited ==
    /\ pc = "loop" /\ attempt < MaxAttempts
    /\ \E ra \in RetryAfterSet :
          LET retry_after == (IF ra = Absent THEN DefaultRetryAfter ELSE ra) + 1
          IN  log' = log \o <<ReadEvent(attempt, "rate_limited", ra, <<>>),
                              SleepEvent(attempt, retry_after)>>
    /\ attempt' = attempt + 1
    /\ UNCHANGED <<pc, url, ret>>
    /\ UNCHANGED <<parseVars, hashVars>>

\* lines 28, 36, 39-42: the read answers another unsuccessful status;
\* raise_for_status raises HTTPError inside the try block
ReadHttpError ==
    /\ pc = "loop" /\ attempt < MaxAttempts
    /\ \E st \in ErrorStatusSet :
          ExceptHandler("HTTPError", <<ReadEvent(attempt, "http_error", st, <<>>)>>)
    /\ UNCHANGED url
    /\ UNCHANGED <<parseVars, hashVars>>

\* lines 28, 39-42: requests.get raises (connectivity, timeout)
ReadTransportFailure ==
    /\ pc = "loop" /\ attempt < MaxAttempts
    /\ \E exc \in TransportExcSet :
          ExceptHandler(exc, <<ReadEvent(attempt, "transport", 0, <<>>)>>)
    /\ UNCHANGED url
    /\ UNCHANGED <<parseVars, hashVars>>

\* line 44: the loop is exhausted
ReturnEmpty ==
    /\ pc = "loop" /\ attempt = MaxAttempts
    /\ ret' = Batch(<<>>)
    /\ pc' = "done"
    /\ UNCHANGED <<url, attempt, log>>
    /\ UNCHANGED <<parseVars, hashVars>>

NextFetch ==
    \/ CallFetchAfter
    \/ ReadOk
    \/ ReadRateLimited
    \/ ReadHttpError
    \/ ReadTransportFailure
    \/ ReturnEmpty

(***************************************************************************)
(* signal_hash                                                             *)
(***************************************************************************)
\* str() of a non-negative int
RECURSIVE str_int(_)
str_int(n) ==
    IF n < 10 THEN <<DigitChars[n + 1]>>
    ELSE str_int(n \div 10) \o <<DigitChars[(n % 10) + 1]>>

\* str() of a float such as 5.0, 7.5, 0.018
str_float(v) ==
    str_int(v.int) \o <<".">> \o (IF v.frac = <<>> THEN <<"0">> ELSE v.frac)

\* str() of a list of floats: "[5.0, 7.5]"
RECURSIVE str_items(_)
str_items(l) ==
    IF l = <<>> THEN <<>>
    ELSE IF Len(l) = 1 THEN str_float(l[1])
    ELSE str_float(Head(l)) \o <<",", " ">> \o str_items(Tail(l))

str_list(l) == <<"[">> \o str_items(l) \o <<"]">>

\* str() of sl_price, a float or None (used by core_with_sl_price only)
str_opt(v) == IF v = None THEN <<"N", "o", "n", "e">> ELSE str_float(v)

CharTable ==
    LowerChars \o UpperChars \o DigitChars
    \o <<" ", "|", ".", ",", "[", "]", ":", "-", "/", "$", "#", "\n", "\t",
         HOURGLASS, EN_DASH, EM_DASH>>

\* hashlib.md5(...).hexdigest() stands as a deterministic digest of fixed
\* width computed from the characters in order (distinct inputs may collide)
RECURSIVE md5(_)
md5(s) ==
    IF s = <<>> THEN 7
    ELSE (md5(SubSeq(s, 1, Len(s) - 1)) * 31 + IndexOf(CharTable, s[Len(s)])) % 65536

\* core with sl_price as a sixth field
core_with_sl_price(sig) ==
    sig.symbol \o <<"|">> \o sig.side \o <<"|">> \o str_float(sig.trigger)
    \o <<"|">> \o str_list(sig.tp_prices) \o <<"|">> \o str_list(sig.dca_prices)
    \o <<"|">> \o str_opt(sig.sl_price)

\* line 129: the canonical string
core(sig) ==
    sig.symbol \o <<"|">> \o sig.side \o <<"|">> \o str_float(sig.trigger)
    \o <<"|">> \o str_list(sig.tp_prices) \o <<"|">> \o str_list(sig.dca_prices)

signal_hash(sig) == md5(core(sig))

Dec(i, f) == [int |-> i, frac |-> f]

SignalSet ==
    { [kind |-> "Signal", base |-> b, symbol |-> b \o W_USDT, side |-> sd,
       trigger |-> tr, tp_prices |-> tp, dca_prices |-> dca, sl_price |-> sl,
       raw |-> rw] :
        b \in {<<"O", "L">>, <<"B", "T", "C">>},
        sd \in {W_SELL, W_BUY},
        tr \in {Dec(1, <<"5">>)},
        tp \in {<<Dec(5, <<>>)>>, <<Dec(5, <<>>), Dec(7, <<"5">>)>>},
        dca \in {<<>>, <<Dec(0, <<"0", "1", "8">>)>>},
        sl \in {None, Dec(9, <<>>), Dec(4, <<>>)},
        rw \in {<<"a">>, <<"b">>} }

InitHash ==
    /\ sigA \in SignalSet
    /\ sigB \in SignalSet
    /\ hashA = -1
    /\ hashB = -1
    \* the reader and the parser are at rest
    /\ pc = "off"
    /\ url = None
    /\ attempt = 0
    /\ log = <<>>
    /\ ret = None
    /\ ppc = "off"
    /\ frags = <<>>
    /\ text = <<>>
    /\ quote = <<>>
    /\ result = None

HashA ==
    /\ hashA = -1
    /\ hashA' = signal_hash(sigA)
    /\ UNCHANGED <<sigA, sigB, hashB>>
    /\ UNCHANGED <<fetchVars, parseVars>>

HashB ==
    /\ hashB = -1
    /\ hashB' = signal_hash(sigB)
    /\ UNCHANGED <<sigA, sigB, hashA>>
    /\ UNCHANGED <<fetchVars, parseVars>>

NextHash ==
    \/ HashA
    \/ HashB

(***************************************************************************)
(* Specifications: one per component, the other components at rest         *)
(***************************************************************************)
NextParse == ParseSignal

SpecParse == InitParse /\ [][NextParse]_vars

SpecFetch == InitFetch /\ [][NextFetch]_vars

SpecHash == InitHash /\ [][NextHash]_vars

(***************************************************************************)
(* Properties of fetch_after                                               *)
(***************************************************************************)
IsRead(e) == e.ev = "read"

Reads == SelectSeq(log, IsRead)

IsFailedRead(e) == e.ev = "read" /\ e.what \in {"rate_limited", "transport"}

\* the outcomes of the call so far are successful responses, rate-limit
\* responses and transport-level failures only
OnlyRetryableOutcomes ==
    \A i \in 1..Len(log) :
        log[i].ev = "read" => log[i].what \in {"ok", "rate_limited", "transport"}

\* C1: a remote read that returns an unsuccessful response other than 429
\* (and that is no transport failure) ends the call at once: nothing follows
\* it in the call, no sleep and no further read, and the call raises.
C1_OtherErrorFailsImmediately ==
    \A i \in 1..Len(log) :
        (log[i].ev = "read" /\ log[i].what = "http_error")
            => /\ i = Len(log)
               /\ pc = "done"
               /\ ret.kind = "raise"

\* C2: when every outcome is a successful response, a rate-limit response or
\* a transport failure, a call makes at most 3 remote reads, the k-th read is
\* attempt k and each failed one consumes one attempt, a successful response
\* is the last read and its batch is what the call returns, and a call that
\* ends without a successful response made 3 reads and returns the empty
\* batch; it never raises.
C2_BoundedRetry ==
    OnlyRetryableOutcomes =>
        /\ Len(Reads) <= 3
        /\ \A i \in 1..Len(Reads) : Reads[i].at = i - 1
        /\ pc = "loop" => attempt = Len(SelectSeq(log, IsFailedRead))
        /\ \A i \in 1..Len(Reads) :
              Reads[i].what = "ok"
                  => /\ i = Len(Reads)
                     /\ pc = "done"
                     /\ ret = Batch(Reads[i].msgs)
        /\ (pc = "done" /\ \A i \in 1..Len(Reads) : Reads[i].what # "ok")
              => /\ Len(Reads) = 3
                 /\ ret = Batch(<<>>)
        /\ ret.kind # "raise"

\* a call that ended after three failed attempts of both kinds
C2_Witness ==
    /\ pc = "done"
    /\ Len(Reads) = 3
    /\ \E i, j \in 1..3 : Reads[i].what = "rate_limited" /\ Reads[j].what = "transport"
    /\ ret = Batch(<<>>)

\* C10: a transport failure on attempt 1 or 2 is followed by a sleep of 3
\* seconds and then by another read, one on attempt 3 by nothing; a
\* rate-limit response is followed by a sleep of retry_after + 1 (6 when
\* retry_after is absent); and the call sleeps at no other point.
C10_SleepPolicy ==
    \A i \in 1..Len(log) :
        /\ (log[i].ev = "read" /\ log[i].what = "transport" /\ log[i].at < 2)
              => /\ i < Len(log)
                 /\ log[i + 1].ev = "sleep" /\ log[i + 1].num = 3
                 /\ i + 1 < Len(log) => log[i + 2].ev = "read"
                 /\ pc = "done" => i + 1 < Len(log)
        /\ (log[i].ev = "read" /\ log[i].what = "transport" /\ log[i].at = 2)
              => i = Len(log)
        /\ (log[i].ev = "read" /\ log[i].what = "rate_limited")
              => /\ i < Len(log)
                 /\ log[i + 1].ev = "sleep"
                 /\ log[i + 1].num = (IF log[i].num = Absent THEN 6 ELSE log[i].num + 1)
        /\ log[i].ev = "sleep"
              => /\ i > 1
                 /\ log[i - 1].ev = "read"
                 /\ log[i - 1].what \in {"transport", "rate_limited"}

(***************************************************************************)
(* Properties of parse_signal, stated over the fragments the text was      *)
(* written with                                                            *)
(***************************************************************************)
IsTP(f) == f.kind = "tp"

TPTokens == SelectSeq(frags, IsTP)

Rank(f) == int(f.w)

Price(f) == float(f.x)

HasKind(k) == \E i \in 1..Len(frags) : frags[i].kind = k

\* the text has a side-and-market token with the configured quote, an Entry
\* price and a strictly positive TP price of rank >= 1
WellFormedBody ==
    /\ \E i \in 1..Len(frags) :
          frags[i].kind = "side" /\ upper(frags[i].x) = upper(quote)
    /\ HasKind("entry")
    /\ \E i \in 1..Len(TPTokens) :
          Rank(TPTokens[i]) >= 1 /\ Positive(Price(TPTokens[i]))

\* C3: parse_signal returns a Signal or None and never raises.
C3_NeverRaises ==
    ppc = "done" => result.kind \in {"Signal", "None"}

\* C4: the symbol of a returned Signal is uppercase: the uppercase base
\* followed by the uppercase configured quote, which is the quote of the
\* side-and-market token.
C4_SymbolUppercase ==
    (ppc = "done" /\ result.kind = "Signal")
        => /\ result.symbol = upper(result.symbol)
           /\ result.symbol = upper(result.base) \o upper(quote)
           /\ \E i \in 1..Len(frags) :
                 /\ frags[i].kind = "side"
                 /\ result.symbol = upper(frags[i].n) \o upper(frags[i].x)

\* C5: a text that contains a cancellation/closure phrase, in any letter
\* case and anywhere, gives None, whatever else it contains.
C5_CancelledIsAbsent ==
    (ppc = "done" /\ HasKind("cancel")) => result.kind = "None"

\* an otherwise well-formed signal that follows a lower-case closure phrase
C5_Witness ==
    /\ ppc = "done"
    /\ WellFormedBody
    /\ \E i \in 1..Len(frags) :
          frags[i].kind = "cancel" /\ frags[i].w # upper(frags[i].w)
    /\ result.kind = "None"

\* C6: the tp_prices of a returned Signal is non-empty and strictly
\* positive, and a text whose TP tokens all carry price 0, or that has no TP
\* token, gives None.
C6_TPPositive ==
    ppc = "done" =>
        /\ result.kind = "Signal"
              => /\ result.tp_prices # <<>>
                 /\ \A i \in 1..Len(result.tp_prices) :
                       Positive(result.tp_prices[i])
        /\ (\A i \in 1..Len(TPTokens) : ~Positive(Price(TPTokens[i])))
              => result.kind = "None"

\* the list the TP tokens describe: length max rank, each price at its
\* rank (the last token of a rank wins), 0 where no token of that rank is
RefList ==
    LET toks == TPTokens
        n == IF toks = <<>> THEN 0 ELSE Max({Rank(toks[i]) : i \in 1..Len(toks)})
    IN  [r \in 1..n |->
            LET at == {i \in 1..Len(toks) : Rank(toks[i]) = r}
            IN  IF at = {} THEN Zero ELSE Price(toks[Max(at)])]

\* C9: tp_prices is that list without its 0 entries: the strictly positive
\* prices in ascending rank order, no token changing another rank's entry.
C9_TPByRank ==
    (ppc = "done" /\ result.kind = "Signal")
        => result.tp_prices = SelectSeq(RefList, Positive)

\* the DCA tokens of the first averaging level that carry a price
IsFirstLevelDCA(f) ==
    f.kind = "dca" /\ f.w \in {<<>>, <<"1">>} /\ f.x # <<>>

\* C8: dca_prices holds the price that follows the first first-level DCA
\* label, if it is positive, and nothing else: a label of a later level or
\* one without a price adds nothing, and no level digit is read as a price.
C8_FirstLevelDCAOnly ==
    (ppc = "done" /\ result.kind = "Signal")
        => LET first == SelectSeq(frags, IsFirstLevelDCA)
           IN  result.dca_prices =
                   IF first # <<>> /\ Positive(Price(first[1]))
                   THEN <<Price(first[1])>>
                   ELSE <<>>

(***************************************************************************)
(* Properties of signal_hash                                               *)
(***************************************************************************)
SameCoreFields ==
    /\ sigA.symbol = sigB.symbol
    /\ sigA.side = sigB.side
    /\ sigA.trigger = sigB.trigger
    /\ sigA.tp_prices = sigB.tp_prices
    /\ sigA.dca_prices = sigB.dca_prices

\* C7: two Signals that agree on symbol, side, trigger, tp_prices and
\* dca_prices have the same fingerprint, whatever their sl_price and raw.
C7_HashIgnoresSlAndRaw ==
    (hashA # -1 /\ hashB # -1 /\ SameCoreFields) => hashA = hashB

\* two fingerprinted Signals that differ in sl_price and in raw only
C7_Witness ==
    /\ hashA # -1 /\ hashB # -1
    /\ SameCoreFields
    /\ sigA.sl_price # sigB.sl_price
    /\ sigA.raw # sigB.raw
    /\ hashA = hashB

====
